---- MODULE Spec2Model ----
(***************************************************************************)
(* webpath: path handles (WebPath), tree snapshots (TreeList) and the     *)
(* recursive synchronisation operations of SFTPHandler, as a state        *)
(* machine over one local and one remote filesystem.                       *)
(*                                                                         *)
(* Every operation of SFTPHandler is one action.  The body of an          *)
(* operation is evaluated by a small interpreter over a run record         *)
(*   [loc, rem, log, err, failAt]                                          *)
(* loc/rem are the filesystems, log the primitive calls issued so far,     *)
(* err the Python exception that is propagating ("none" when none is),     *)
(* failAt the number of the primitive call the backend rejects with        *)
(* permission denied (0: none).  Every step is the identity once err is    *)
(* set, which is how an exception skips the rest of a function body.       *)
(***************************************************************************)
EXTENDS Integers, Sequences, FiniteSets, TLC

\* ---------------------------------------------------------------- bounds
MaxSec == 2        \* whole seconds of a timestamp range over 1..MaxSec
MaxFrac == 1       \* sub-second part of a local timestamp, 0..MaxFrac
MaxOps == 2        \* operations run one after the other
MaxFail == 3       \* the backend may reject primitive call 1..MaxFail
MaxCalls == 4      \* calls made through one path handle and its stream
MaxSize == 2       \* writes a file takes through a stream of a path handle
MaxFiles == 3      \* streams opened in the body of one session scope
MaxTouch == 1      \* touch() calls in the body of one session scope
MaxLen == 2        \* characters of a string, bytes of a bytes object
MaxIO == 5         \* open, read, write and close calls on the streams of a file

\* ----------------------------------------------------------- filesystems
\* A path is the sequence of its components; as_posix() joins them by "/".
T == <<"T">>       \* local source root
L == <<"L">>       \* local destination root
R == <<"R">>       \* remote root

\* relative paths of the nodes a tree may hold
U == { <<"a">>, <<"a", "b">>, <<"a", "b", "c">>, <<"b">> }

\* order in which a directory listing returns names
NameOrder == <<"a", "b", "c">>

Under(root) == { root \o u : u \in U \cup {<< >>} }
LocalPaths == Under(T) \cup Under(L)
RemotePaths == Under(R)

Time(s, f) == [sec |-> s, frac |-> f]
NoTime == Time(0, 0)
Absent == [type |-> "none", mtime |-> NoTime, atime |-> NoTime, data |-> 0]
MkNode(ty, t, d) == [type |-> ty, mtime |-> t, atime |-> t, data |-> d]

Parent(p) == SubSeq(p, 1, Len(p) - 1)

\* the empty path is the working directory, which always exists
Exists(fs, p) == p = << >> \/ (p \in DOMAIN fs /\ fs[p].type # "none")
IsDirNode(fs, p) == p = << >> \/ (p \in DOMAIN fs /\ fs[p].type = "dir")
Lookup(fs, p) == IF p \in DOMAIN fs THEN fs[p] ELSE Absent
HasChild(fs, p) == \E q \in DOMAIN fs : Len(q) > 0 /\ Parent(q) = p /\ fs[q].type # "none"

\* shapes: which relative paths exist and of which type; a node's parent is
\* a directory
Shapes == { s \in [U -> {"none", "dir", "file"}] :
              \A u \in U : (s[u] # "none" /\ Len(u) > 1) => s[Parent(u)] = "dir" }

\* the tree of shape s under root, every node stamped t, every file holding d
TreeOf(root, s, t, d) ==
  [ p \in Under(root) |->
      IF p = root THEN MkNode("dir", t, 0)
      ELSE LET u == SubSeq(p, Len(root) + 1, Len(p)) IN
           IF s[u] = "none" THEN Absent
           ELSE MkNode(s[u], t, IF s[u] = "file" THEN d ELSE 0) ]

NoTree(root) == [ p \in Under(root) |-> Absent ]

Merge(f, g) == [ p \in (DOMAIN f) \cup (DOMAIN g) |-> IF p \in DOMAIN f THEN f[p] ELSE g[p] ]

\* ------------------------------------------------------------ exceptions
\* the exception classes the code can meet; IOError is OSError, of which
\* FileNotFoundError, PermissionError, FileExistsError and
\* IsADirectoryError are subclasses
OSErrors == {"IOError", "FileNotFoundError", "PermissionError",
             "FileExistsError", "IsADirectoryError"}

\* ------------------------------------------------------------ run record
\* The({ e(x) : x \in {v} }) is e with x bound to the value of v, that
\* is "x = v; e" of the code
The(S) == CHOOSE x \in S : TRUE

NewRun(loc0, rem0, failAt0) ==
  [loc |-> loc0, rem |-> rem0, log |-> << >>, err |-> "none", failAt |-> failAt0]

Ok(r) == r.err = "none"
Fail(r, e) == [r EXCEPT !.err = e]
Logged(r, op, p) == [r EXCEPT !.log = Append(@, [op |-> op, path |-> p])]
\* the call about to be issued is the one the backend rejects
Rejected(r) == r.failAt = Len(r.log) + 1
Ret(r, v) == [r |-> r, v |-> v]

\* the clock: a node created or written during an operation is stamped now
Now == Time(MaxSec, 0)

\* int(t) of a timestamp
Trunc(t) == Time(t.sec, 0)

\* the names listed under directory p, in listing order
ChildNames(fs, p) ==
  LET Present(n) == Exists(fs, p \o <<n>>) IN SelectSeq(NameOrder, Present)
Children(fs, p) ==
  LET ns == ChildNames(fs, p) IN [ i \in 1..Len(ns) |-> p \o <<ns[i]>> ]

\* ------------------------------------------- remote primitives (paramiko)
\* SFTPClient.listdir_attr: one attribute record per entry of the directory
ListdirAttr(r, p) ==
  IF ~Ok(r) THEN Ret(r, << >>)
  ELSE LET r1 == Logged(r, "listdir_attr", p) IN
       IF Rejected(r) THEN Ret(Fail(r1, "PermissionError"), << >>)
       ELSE IF ~Exists(r.rem, p) THEN Ret(Fail(r1, "FileNotFoundError"), << >>)
       ELSE IF ~IsDirNode(r.rem, p) THEN Ret(Fail(r1, "IOError"), << >>)
       ELSE LET ns == ChildNames(r.rem, p) IN
            Ret(r1, [ i \in 1..Len(ns) |->
                        [filename |-> ns[i], attr |-> r.rem[p \o <<ns[i]>>]] ])

\* SFTPClient.stat
RemoteStat(r, p) ==
  IF ~Ok(r) THEN Ret(r, Absent)
  ELSE LET r1 == Logged(r, "stat", p) IN
       IF Rejected(r) THEN Ret(Fail(r1, "PermissionError"), Absent)
       ELSE IF ~Exists(r.rem, p) THEN Ret(Fail(r1, "FileNotFoundError"), Absent)
       ELSE Ret(r1, r.rem[p])

\* SFTPClient.mkdir
RemoteMkdir(r, p) ==
  IF ~Ok(r) THEN r
  ELSE LET r1 == Logged(r, "mkdir", p) IN
       IF Rejected(r) THEN Fail(r1, "PermissionError")
       ELSE IF ~IsDirNode(r.rem, Parent(p)) \/ p \notin DOMAIN r.rem
            THEN Fail(r1, "FileNotFoundError")
       ELSE IF Exists(r.rem, p) THEN Fail(r1, "IOError")
       ELSE [r1 EXCEPT !.rem[p] = MkNode("dir", Now, 0)]

\* SFTPClient.rmdir: a directory that still has entries is refused
RemoteRmdir(r, p) ==
  IF ~Ok(r) THEN r
  ELSE LET r1 == Logged(r, "rmdir", p) IN
       IF Rejected(r) THEN Fail(r1, "PermissionError")
       ELSE IF ~Exists(r.rem, p) THEN Fail(r1, "FileNotFoundError")
       ELSE IF ~IsDirNode(r.rem, p) \/ HasChild(r.rem, p) THEN Fail(r1, "IOError")
       ELSE [r1 EXCEPT !.rem[p] = Absent]

\* SFTPClient.remove
RemoteRemove(r, p) ==
  IF ~Ok(r) THEN r
  ELSE LET r1 == Logged(r, "remove", p) IN
       IF Rejected(r) THEN Fail(r1, "PermissionError")
       ELSE IF ~Exists(r.rem, p) THEN Fail(r1, "FileNotFoundError")
       ELSE IF IsDirNode(r.rem, p) THEN Fail(r1, "IOError")
       ELSE [r1 EXCEPT !.rem[p] = Absent]

\* SFTPClient.utime: the attributes go over the wire as whole seconds
RemoteUtime(r, p, at, mt) ==
  IF ~Ok(r) THEN r
  ELSE LET r1 == Logged(r, "utime", p) IN
       IF Rejected(r) THEN Fail(r1, "PermissionError")
       ELSE IF ~Exists(r.rem, p) THEN Fail(r1, "FileNotFoundError")
       ELSE [r1 EXCEPT !.rem[p].atime = Trunc(at), !.rem[p].mtime = Trunc(mt)]

\* paramiko's SFTPClient.put: read the local file, write the remote one
SuperPut(r, lp, rp) ==
  IF ~Ok(r) THEN r
  ELSE LET r1 == Logged(r, "put", rp) IN
       IF Rejected(r) THEN Fail(r1, "PermissionError")
       ELSE IF ~Exists(r.loc, lp) THEN Fail(r1, "FileNotFoundError")
       ELSE IF IsDirNode(r.loc, lp) THEN Fail(r1, "IsADirectoryError")
       ELSE IF ~IsDirNode(r.rem, Parent(rp)) \/ rp \notin DOMAIN r.rem
            THEN Fail(r1, "FileNotFoundError")
       ELSE IF IsDirNode(r.rem, rp) THEN Fail(r1, "IOError")
       ELSE [r1 EXCEPT !.rem[rp] = MkNode("file", Now, r.loc[lp].data)]

\* paramiko's SFTPClient.get: open the local file for writing, then read
\* the remote one into it
SuperGet(r, rp, lp) ==
  IF ~Ok(r) THEN r
  ELSE LET r1 == Logged(r, "get", rp) IN
       IF Rejected(r) THEN Fail(r1, "PermissionError")
       ELSE IF ~IsDirNode(r.loc, Parent(lp)) \/ lp \notin DOMAIN r.loc
            THEN Fail(r1, "FileNotFoundError")
       ELSE IF IsDirNode(r.loc, lp) THEN Fail(r1, "IsADirectoryError")
       ELSE IF ~Exists(r.rem, rp)
            THEN Fail([r1 EXCEPT !.loc[lp] = MkNode("file", Now, 0)], "FileNotFoundError")
       ELSE IF IsDirNode(r.rem, rp)
            THEN Fail([r1 EXCEPT !.loc[lp] = MkNode("file", Now, 0)], "IOError")
       ELSE [r1 EXCEPT !.loc[lp] = MkNode("file", Now, r.rem[rp].data)]

\* -------------------------------------------------------- local primitives
\* os.stat
OsStat(r, p) ==
  IF ~Ok(r) THEN Ret(r, Absent)
  ELSE LET r1 == Logged(r, "os.stat", p) IN
       IF Rejected(r) THEN Ret(Fail(r1, "PermissionError"), Absent)
       ELSE IF ~Exists(r.loc, p) THEN Ret(Fail(r1, "FileNotFoundError"), Absent)
       ELSE Ret(r1, r.loc[p])

\* os.utime
OsUtime(r, p, at, mt) ==
  IF ~Ok(r) THEN r
  ELSE LET r1 == Logged(r, "os.utime", p) IN
       IF Rejected(r) THEN Fail(r1, "PermissionError")
       ELSE IF ~Exists(r.loc, p) THEN Fail(r1, "FileNotFoundError")
       ELSE [r1 EXCEPT !.loc[p].atime = at, !.loc[p].mtime = mt]

\* pathlib.Path.mkdir(exist_ok=True)
LocalMkdir(r, p) ==
  IF ~Ok(r) THEN r
  ELSE LET r1 == Logged(r, "os.mkdir", p) IN
       IF Rejected(r) THEN Fail(r1, "PermissionError")
       ELSE IF ~IsDirNode(r.loc, Parent(p)) \/ p \notin DOMAIN r.loc
            THEN Fail(r1, "FileNotFoundError")
       ELSE IF IsDirNode(r.loc, p) THEN r1
       ELSE IF Exists(r.loc, p) THEN Fail(r1, "FileExistsError")
       ELSE [r1 EXCEPT !.loc[p] = MkNode("dir", Now, 0)]

\* ------------------------------------------------------------ path handles
\* An element of a snapshot: a pathlib.Path ("local"), a WebPath ("web",
\* with its cached stat, Absent for None) or a Python bool ("bool").
PurePath(p) == [kind |-> "local", path |-> p, st |-> Absent, val |-> FALSE]
Bool(b) == [kind |-> "bool", path |-> << >>, st |-> Absent, val |-> b]
NoHandle == Bool(FALSE)

ClearErr(r) == [r EXCEPT !.err = "none"]
IsPrefix(a, p) == Len(a) <= Len(p) /\ SubSeq(p, 1, Len(a)) = a
Suffix(a, p) == SubSeq(p, Len(a) + 1, Len(p))

\* WebPath.__init__
WebPathInit(p, st) == [kind |-> "web", path |-> p, st |-> st, val |-> FALSE]

\* WebPath.from_attr: the module never imports Path, so building the path
\* of the node raises NameError
FromAttr(r, parent, attr) ==
  IF ~Ok(r) THEN Ret(r, NoHandle) ELSE Ret(Fail(r, "NameError"), NoHandle)

\* WebPath.stat: the cached value, fetched from the accessor when None;
\* h is the handle afterwards
WebStat(r, h) ==
  IF ~Ok(r) THEN [r |-> r, v |-> Absent, h |-> h]
  ELSE IF h.st # Absent THEN [r |-> r, v |-> h.st, h |-> h]
  ELSE The({ [r |-> s.r, v |-> s.v, h |-> IF Ok(s.r) THEN [h EXCEPT !.st = s.v] ELSE h]
             : s \in {RemoteStat(r, h.path)} })

\* WebPath.is_dir / is_file: S_ISDIR / S_ISREG of the mode, False on
\* FileNotFoundError
WebIsDir(r, h) ==
  IF ~Ok(r) THEN Ret(r, FALSE)
  ELSE The({ IF s.r.err = "FileNotFoundError" THEN Ret(ClearErr(s.r), FALSE)
             ELSE Ret(s.r, Ok(s.r) /\ s.v.type = "dir")
             : s \in {WebStat(r, h)} })

WebIsFile(r, h) ==
  IF ~Ok(r) THEN Ret(r, FALSE)
  ELSE The({ IF s.r.err = "FileNotFoundError" THEN Ret(ClearErr(s.r), FALSE)
             ELSE Ret(s.r, Ok(s.r) /\ s.v.type = "file")
             : s \in {WebStat(r, h)} })

\* WebPath.relative_to: reads self._system, an attribute no WebPath has
WebRelativeTo(r, h, ancestor) ==
  IF ~Ok(r) THEN Ret(r, NoHandle)
  ELSE IF ~IsPrefix(ancestor, h.path) THEN Ret(Fail(r, "ValueError"), NoHandle)
  ELSE Ret(Fail(r, "AttributeError"), NoHandle)

\* pathlib.Path.is_dir / is_file / relative_to
PathIsDir(r, h) ==
  Ret(r, Ok(r) /\ h.path \in DOMAIN r.loc /\ IsDirNode(r.loc, h.path))
PathIsFile(r, h) ==
  Ret(r, Ok(r) /\ Lookup(r.loc, h.path).type = "file")
PathRelativeTo(r, h, ancestor) ==
  IF ~Ok(r) THEN Ret(r, NoHandle)
  ELSE IF ~IsPrefix(ancestor, h.path) THEN Ret(Fail(r, "ValueError"), NoHandle)
  ELSE Ret(r, PurePath(Suffix(ancestor, h.path)))

\* p.is_dir(), p.is_file(), p.relative_to(a), p.stat() on an element of a
\* snapshot: the method of the element's class; a bool has none of them
IsDir(r, h) ==
  IF ~Ok(r) THEN Ret(r, FALSE)
  ELSE IF h.kind = "web" THEN WebIsDir(r, h)
  ELSE IF h.kind = "local" THEN PathIsDir(r, h)
  ELSE Ret(Fail(r, "AttributeError"), FALSE)

IsFile(r, h) ==
  IF ~Ok(r) THEN Ret(r, FALSE)
  ELSE IF h.kind = "web" THEN WebIsFile(r, h)
  ELSE IF h.kind = "local" THEN PathIsFile(r, h)
  ELSE Ret(Fail(r, "AttributeError"), FALSE)

RelativeTo(r, h, ancestor) ==
  IF ~Ok(r) THEN Ret(r, NoHandle)
  ELSE IF h.kind = "web" THEN WebRelativeTo(r, h, ancestor)
  ELSE IF h.kind = "local" THEN PathRelativeTo(r, h, ancestor)
  ELSE Ret(Fail(r, "AttributeError"), NoHandle)

Stat(r, h) ==
  IF ~Ok(r) THEN Ret(r, Absent)
  ELSE IF h.kind = "web" THEN The({ Ret(s.r, s.v) : s \in {WebStat(r, h)} })
  ELSE IF h.kind = "local" THEN OsStat(r, h.path)
  ELSE Ret(Fail(r, "AttributeError"), Absent)

\* ------------------------------------------------------------- TreeList
TreeList(root, paths) == [root |-> root, paths |-> paths]
NoTreeList == TreeList(<< >>, << >>)

\* TreeList._rel
Rel(r, tree, h) ==
  The({ Ret(x.r, x.v.path) : x \in {RelativeTo(r, h, tree.root)} })

\* TreeList._key: (relative path, int(st_mtime))
Key(r, tree, h) ==
  The({ The({ Ret(x.r, [rel |-> x.v.path, mtime |-> Trunc(s.v.mtime).sec])
              : x \in {RelativeTo(s.r, h, tree.root)} })
        : s \in {Stat(r, h)} })

\* set(map(tree._rel, tree.paths)), from element i on
RECURSIVE RelSet(_, _, _)
RelSet(r, tree, i) ==
  IF ~Ok(r) \/ i > Len(tree.paths) THEN Ret(r, {})
  ELSE The({ The({ Ret(rest.r, {x.v} \cup rest.v)
                   : rest \in {RelSet(x.r, tree, i + 1)} })
             : x \in {Rel(r, tree, tree.paths[i])} })

\* set(map(tree._key, tree.paths)), from element i on
RECURSIVE KeySet(_, _, _)
KeySet(r, tree, i) ==
  IF ~Ok(r) \/ i > Len(tree.paths) THEN Ret(r, {})
  ELSE The({ The({ Ret(rest.r, {x.v} \cup rest.v)
                   : rest \in {KeySet(x.r, tree, i + 1)} })
             : x \in {Key(r, tree, tree.paths[i])} })

\* list(map(lambda p: self._rel(p) not in paths, self.paths)): one bool
\* per element of self
RECURSIVE DiffMap(_, _, _, _)
DiffMap(r, tree, paths, i) ==
  IF ~Ok(r) \/ i > Len(tree.paths) THEN Ret(r, << >>)
  ELSE The({ The({ Ret(rest.r, <<Bool(x.v \notin paths)>> \o rest.v)
                   : rest \in {DiffMap(x.r, tree, paths, i + 1)} })
             : x \in {Rel(r, tree, tree.paths[i])} })

\* list(map(lambda p: self._key(p) not in paths, self.paths))
RECURSIVE ModMap(_, _, _, _)
ModMap(r, tree, paths, i) ==
  IF ~Ok(r) \/ i > Len(tree.paths) THEN Ret(r, << >>)
  ELSE The({ The({ Ret(rest.r, <<Bool(x.v \notin paths)>> \o rest.v)
                   : rest \in {ModMap(x.r, tree, paths, i + 1)} })
             : x \in {Key(r, tree, tree.paths[i])} })

\* TreeList.diff
Diff(r, self, other) ==
  The({ The({ Ret(m.r, IF Ok(m.r) THEN TreeList(self.root, m.v) ELSE NoTreeList)
              : m \in {DiffMap(paths.r, self, paths.v, 1)} })
        : paths \in {RelSet(r, other, 1)} })

\* TreeList.mod
Mod(r, self, other) ==
  The({ The({ Ret(m.r, IF Ok(m.r) THEN TreeList(self.root, m.v) ELSE NoTreeList)
              : m \in {ModMap(paths.r, self, paths.v, 1)} })
        : paths \in {KeySet(r, other, 1)} })

\* ----------------------------------------------------------- SFTPHandler
\* SFTPHandler._walk, consumed to the end by list(): the handles of the
\* listing of path, each followed by the walk of its directory
RECURSIVE Walk(_, _), WalkAttrs(_, _, _)
Walk(r, path) ==
  The({ WalkAttrs(ls.r, path, ls.v) : ls \in {ListdirAttr(r, path)} })

WalkAttrs(r, path, attrs) ==
  IF ~Ok(r) \/ attrs = << >> THEN Ret(r, << >>)
  ELSE The({ The({ The({ The({ Ret(rest.r, <<node.v>> \o sub.v \o rest.v)
                               : rest \in {WalkAttrs(sub.r, path, Tail(attrs))} })
                         : sub \in {IF d.v THEN Walk(d.r, node.v.path)
                                    ELSE Ret(d.r, << >>)} })
                   : d \in {IsDir(node.r, node.v)} })
             : node \in {FromAttr(r, path, Head(attrs))} })

\* TreeList.from_walk
FromWalk(w, root) == Ret(w.r, IF Ok(w.r) THEN TreeList(root, w.v) ELSE NoTreeList)

\* SFTPHandler._remote_tree
RemoteTree(r, path) ==
  The({ FromWalk(w, path) : w \in {Walk(r, path)} })

\* pathlib's Path.rglob("*"): for every directory under root, in pre-order,
\* its entries; nothing when root cannot be listed
RECURSIVE DirsPre(_, _), DirsPreSeq(_, _)
DirsPre(fs, p) == <<p>> \o DirsPreSeq(fs, Children(fs, p))
DirsPreSeq(fs, ps) ==
  IF ps = << >> THEN << >>
  ELSE (IF IsDirNode(fs, Head(ps)) THEN DirsPre(fs, Head(ps)) ELSE << >>)
       \o DirsPreSeq(fs, Tail(ps))

RECURSIVE ChildrenOfAll(_, _)
ChildrenOfAll(fs, ds) ==
  IF ds = << >> THEN << >>
  ELSE Children(fs, Head(ds)) \o ChildrenOfAll(fs, Tail(ds))

RGlob(r, root) ==
  IF ~Ok(r) THEN Ret(r, << >>)
  ELSE IF Rejected(r) \/ root \notin DOMAIN r.loc \/ ~IsDirNode(r.loc, root)
       THEN Ret(Logged(r, "rglob", root), << >>)
  ELSE The({ Ret(Logged(r, "rglob", root), [ i \in 1..Len(ps) |-> PurePath(ps[i]) ])
             : ps \in {ChildrenOfAll(r.loc, DirsPre(r.loc, root))} })

\* SFTPHandler._local_tree
LocalTree(r, path) ==
  The({ FromWalk(w, path) : w \in {RGlob(r, path)} })

\* SFTPHandler._copy_remote_time
CopyRemoteTime(r, localpath, remotepath) ==
  The({ OsUtime(s.r, localpath, s.v.atime, s.v.mtime)
        : s \in {RemoteStat(r, remotepath)} })

\* SFTPHandler._copy_local_time
CopyLocalTime(r, localpath, remotepath) ==
  The({ RemoteUtime(s.r, remotepath, s.v.atime, s.v.mtime)
        : s \in {OsStat(r, localpath)} })

\* SFTPHandler.isdir: is_dir() of a fresh WebPath, False on IOError
Isdir(r, remotepath) ==
  IF ~Ok(r) THEN Ret(r, FALSE)
  ELSE The({ IF d.r.err \in OSErrors THEN Ret(ClearErr(d.r), FALSE) ELSE d
             : d \in {WebIsDir(r, WebPathInit(remotepath, Absent))} })

\* SFTPHandler.get
Get(r, remotepath, localpath, preserve_mtime) ==
  The({ IF preserve_mtime THEN CopyRemoteTime(r1, localpath, remotepath) ELSE r1
        : r1 \in {SuperGet(r, remotepath, localpath)} })

\* SFTPHandler.put
Put(r, localpath, remotepath, preserve_mtime) ==
  The({ IF preserve_mtime
        THEN The({ RemoteStat(r2, remotepath).r
                   : r2 \in {CopyLocalTime(r1, localpath, remotepath)} })
        ELSE r1
        : r1 \in {SuperPut(r, localpath, remotepath)} })

\* get_r, body of the first loop, for one rd of tree.paths: skipped unless
\* rd is a directory
GetRDir(r, rd, remotepath, localpath, preserve_mtime) ==
  The({ IF ~d.v THEN d.r
        ELSE The({ The({ IF preserve_mtime
                         THEN CopyRemoteTime(r1, localpath \o rel.v.path, rd.path)
                         ELSE r1
                         : r1 \in {LocalMkdir(rel.r, localpath \o rel.v.path)} })
                   : rel \in {RelativeTo(d.r, rd, remotepath)} })
        : d \in {IsDir(r, rd)} })

\* get_r, first loop: for rd in tree.directories, from element i on
RECURSIVE GetRDirs(_, _, _, _, _, _)
GetRDirs(r, tree, remotepath, localpath, preserve_mtime, i) ==
  IF ~Ok(r) \/ i > Len(tree.paths) THEN r
  ELSE The({ GetRDirs(r1, tree, remotepath, localpath, preserve_mtime, i + 1)
             : r1 \in {GetRDir(r, tree.paths[i], remotepath, localpath,
                               preserve_mtime)} })

\* get_r, body of the second loop, for one rf of tree.paths: skipped unless
\* rf is a file
GetRFile(r, rf, remotepath, localpath, preserve_mtime) ==
  The({ IF ~f.v THEN f.r
        ELSE The({ Get(rel.r, rf.path, localpath \o rel.v.path, preserve_mtime)
                   : rel \in {RelativeTo(f.r, rf, remotepath)} })
        : f \in {IsFile(r, rf)} })

\* get_r, second loop: for rf in tree.files, from element i on
RECURSIVE GetRFiles(_, _, _, _, _, _)
GetRFiles(r, tree, remotepath, localpath, preserve_mtime, i) ==
  IF ~Ok(r) \/ i > Len(tree.paths) THEN r
  ELSE The({ GetRFiles(r1, tree, remotepath, localpath, preserve_mtime, i + 1)
             : r1 \in {GetRFile(r, tree.paths[i], remotepath, localpath,
                                preserve_mtime)} })

\* SFTPHandler.get_r
GetR(r, remotepath, localpath, preserve_mtime) ==
  The({ The({ GetRFiles(r1, t.v, remotepath, localpath, preserve_mtime, 1)
              : r1 \in {GetRDirs(t.r, t.v, remotepath, localpath, preserve_mtime, 1)} })
        : t \in {RemoteTree(r, remotepath)} })

\* _put_tree, body of the first loop once rd is known: nothing for ".",
\* else mkdir unless isdir(rd), then the time copy
PutTreeDirAt(r, ld, rd, preserve_mtime) ==
  IF rd = << >> THEN r
  ELSE The({ The({ IF preserve_mtime THEN CopyRemoteTime(r1, ld.path, rd) ELSE r1
                   : r1 \in {IF ~isd.v THEN RemoteMkdir(isd.r, rd) ELSE isd.r} })
             : isd \in {Isdir(r, rd)} })

\* _put_tree, body of the first loop, for one ld of tree.paths: skipped
\* unless ld is a directory
PutTreeDir(r, tree, ld, remotepath, preserve_mtime) ==
  The({ IF ~d.v THEN d.r
        ELSE The({ PutTreeDirAt(rel.r, ld, remotepath \o rel.v.path, preserve_mtime)
                   : rel \in {RelativeTo(d.r, ld, tree.root)} })
        : d \in {IsDir(r, ld)} })

\* _put_tree, first loop: for ld in tree.directories, from element i on
RECURSIVE PutTreeDirs(_, _, _, _, _)
PutTreeDirs(r, tree, remotepath, preserve_mtime, i) ==
  IF ~Ok(r) \/ i > Len(tree.paths) THEN r
  ELSE The({ PutTreeDirs(r1, tree, remotepath, preserve_mtime, i + 1)
             : r1 \in {PutTreeDir(r, tree, tree.paths[i], remotepath,
                                  preserve_mtime)} })

\* _put_tree, body of the second loop, for one lf of tree.paths: skipped
\* unless lf is a file
PutTreeFile(r, tree, lf, remotepath, preserve_mtime) ==
  The({ IF ~f.v THEN f.r
        ELSE The({ Put(rel.r, lf.path, remotepath \o rel.v.path, preserve_mtime)
                   : rel \in {RelativeTo(f.r, lf, tree.root)} })
        : f \in {IsFile(r, lf)} })

\* _put_tree, second loop: for lf in tree.files, from element i on
RECURSIVE PutTreeFiles(_, _, _, _, _)
PutTreeFiles(r, tree, remotepath, preserve_mtime, i) ==
  IF ~Ok(r) \/ i > Len(tree.paths) THEN r
  ELSE The({ PutTreeFiles(r1, tree, remotepath, preserve_mtime, i + 1)
             : r1 \in {PutTreeFile(r, tree, tree.paths[i], remotepath,
                                   preserve_mtime)} })

\* _put_tree as it would be with its two loops in the other order: the
\* files first, the directories after them
PutTreeFilesFirst(r, tree, remotepath, preserve_mtime) ==
  The({ PutTreeDirs(r1, tree, remotepath, preserve_mtime, 1)
        : r1 \in {PutTreeFiles(r, tree, remotepath, preserve_mtime, 1)} })

\* SFTPHandler._put_tree
PutTree(r, tree, remotepath, preserve_mtime) ==
  The({ PutTreeFiles(r1, tree, remotepath, preserve_mtime, 1)
        : r1 \in {PutTreeDirs(r, tree, remotepath, preserve_mtime, 1)} })

\* SFTPHandler.put_r
PutR(r, localpath, remotepath, preserve_mtime) ==
  The({ PutTree(t.r, t.v, remotepath, preserve_mtime)
        : t \in {LocalTree(r, localpath)} })

\* put_diff as it would be if it uploaded the local tree whole, never
\* comparing it with the remote one
PutDiffWholeTree(r, localpath, remotepath, preserve_mtime) ==
  PutR(r, localpath, remotepath, preserve_mtime)

\* SFTPHandler.put_diff
PutDiff(r, localpath, remotepath, preserve_mtime) ==
  The({ The({ The({ PutTree(tree.r, tree.v, remotepath, preserve_mtime)
                    : tree \in {Mod(loc_tree.r, loc_tree.v, rem_tree.v)} })
              : loc_tree \in {LocalTree(rem_tree.r, localpath)} })
        : rem_tree \in {RemoteTree(r, remotepath)} })

\* reversed(tree.directories): a filter object has no __reversed__ and is
\* no sequence, so reversed() raises TypeError before it reads an element
Reversed(r, directories) ==
  IF ~Ok(r) THEN Ret(r, << >>) ELSE Ret(Fail(r, "TypeError"), << >>)

\* _rm_tree, body of the first loop, for one rf of tree.paths
RmTreeFile(r, rf) ==
  The({ IF f.v THEN RemoteRemove(f.r, rf.path) ELSE f.r : f \in {IsFile(r, rf)} })

\* _rm_tree, first loop: for rf in tree.files, from element i on
RECURSIVE RmTreeFiles(_, _, _)
RmTreeFiles(r, tree, i) ==
  IF ~Ok(r) \/ i > Len(tree.paths) THEN r
  ELSE The({ RmTreeFiles(r1, tree, i + 1) : r1 \in {RmTreeFile(r, tree.paths[i])} })

\* _rm_tree, body of the second loop, for one rd of the reversed list
RmTreeDir(r, rd) ==
  The({ IF d.v THEN RemoteRmdir(d.r, rd.path) ELSE d.r : d \in {IsDir(r, rd)} })

\* _rm_tree, second loop: for rd in reversed(...), from element i on
RECURSIVE RmTreeDirs(_, _, _)
RmTreeDirs(r, rds, i) ==
  IF ~Ok(r) \/ i > Len(rds) THEN r
  ELSE The({ RmTreeDirs(r1, rds, i + 1) : r1 \in {RmTreeDir(r, rds[i])} })

\* SFTPHandler._rm_tree
RmTree(r, tree) ==
  The({ The({ RmTreeDirs(rev.r, rev.v, 1) : rev \in {Reversed(r1, tree.paths)} })
        : r1 \in {RmTreeFiles(r, tree, 1)} })

\* SFTPHandler.rm_r
RmR(r, remotepath, remove_root) ==
  The({ The({ IF remove_root THEN RemoteRmdir(r1, remotepath) ELSE r1
              : r1 \in {RmTree(t.r, t.v)} })
        : t \in {RemoteTree(r, remotepath)} })

\* SFTPHandler.rm_diff
RmDiff(r, localpath, remotepath) ==
  The({ The({ The({ RmTree(rm_tree.r, rm_tree.v)
                    : rm_tree \in {Diff(loc_tree.r, rem_tree.v, loc_tree.v)} })
              : loc_tree \in {LocalTree(rem_tree.r, localpath)} })
        : rem_tree \in {RemoteTree(r, remotepath)} })

\* --------------------------------------------------------- state machine
VARIABLES
  loc,    \* the local filesystem: the trees under T and L
  rem,    \* the remote filesystem: the tree under R
  hist,   \* the operations run so far, each with its calls and its outcome
  snap,   \* the last TreeList comparison: its operands and its result
  handle, \* a WebPath in the caller's hands: its cache, its last call
  stream, \* a FileHandler in the caller's hands, and its last call
  session \* an SFTPClient(**cfg) scope: its SSH client and its SFTP channel

vars == <<loc, rem, hist, snap, handle, stream, session>>

\* no path handle, no stream and no session scope in use
NoWebPath == [state |-> "none"]
NoStream == [state |-> "none"]
NoSession == [state |-> "none"]
NoneInHand == handle = NoWebPath /\ stream = NoStream /\ session = NoSession

EmptyShape == [u \in U |-> "none"]
NoSnap == [op |-> "none", a |-> NoTreeList, b |-> NoTreeList,
           out |-> NoTreeList, err |-> "none"]

\* a local source tree under T, a destination L that is missing or empty,
\* a remote tree under R; local stamps carry a sub-second part, remote
\* stamps are whole seconds
Init ==
  /\ \E sT \in Shapes, f \in 0..MaxFrac, fresh \in BOOLEAN :
       loc = Merge(TreeOf(T, sT, Time(1, f), 1),
                   IF fresh THEN NoTree(L) ELSE TreeOf(L, EmptyShape, Time(1, f), 1))
  /\ \E sR \in Shapes, rs \in 1..MaxSec : rem = TreeOf(R, sR, Time(rs, 0), 2)
  /\ hist = << >>
  /\ snap = NoSnap
  /\ NoneInHand

\* what an operation leaves in hist
Entry(op, flag, r) ==
  [op |-> op, flag |-> flag, err |-> r.err, log |-> r.log,
   failAt |-> IF r.failAt <= Len(r.log) THEN r.failAt ELSE 0,
   loc0 |-> loc, rem0 |-> rem]

Finish(op, flag, r) ==
  /\ loc' = r.loc
  /\ rem' = r.rem
  /\ hist' = Append(hist, Entry(op, flag, r))
  /\ UNCHANGED <<snap, handle, stream, session>>

\* the operations, with the backend rejecting call k for some k in ks
GetRCall(ks) ==
  \E preserve_mtime \in BOOLEAN, k \in ks :
    \E r \in {GetR(NewRun(loc, rem, k), R, L, preserve_mtime)} :
      Finish("get_r", preserve_mtime, r)

PutRCall(ks) ==
  \E preserve_mtime \in BOOLEAN, k \in ks :
    \E r \in {PutR(NewRun(loc, rem, k), T, R, preserve_mtime)} :
      Finish("put_r", preserve_mtime, r)

PutDiffCall(ks) ==
  \E preserve_mtime \in BOOLEAN, k \in ks :
    \E r \in {PutDiff(NewRun(loc, rem, k), T, R, preserve_mtime)} :
      Finish("put_diff", preserve_mtime, r)

RmRCall(ks) ==
  \E remove_root \in BOOLEAN, k \in ks :
    \E r \in {RmR(NewRun(loc, rem, k), R, remove_root)} :
      Finish("rm_r", remove_root, r)

RmDiffCall(ks) ==
  \E k \in ks :
    \E r \in {RmDiff(NewRun(loc, rem, k), T, R)} : Finish("rm_diff", FALSE, r)

\* a session against a backend that rejects no call
get_r == Len(hist) < MaxOps /\ GetRCall({0})
put_r == Len(hist) < MaxOps /\ PutRCall({0})
put_diff == Len(hist) < MaxOps /\ PutDiffCall({0})
rm_r == Len(hist) < MaxOps /\ RmRCall({0})
rm_diff == Len(hist) < MaxOps /\ RmDiffCall({0})

Next == get_r \/ put_r \/ put_diff \/ rm_r \/ rm_diff

Spec == Init /\ [][Next]_vars

\* a backend that rejects one call of a single operation
get_r_fail == hist = << >> /\ GetRCall(1..MaxFail)
put_r_fail == hist = << >> /\ PutRCall(1..MaxFail)
put_diff_fail == hist = << >> /\ PutDiffCall(1..MaxFail)
rm_r_fail == hist = << >> /\ RmRCall(1..MaxFail)
rm_diff_fail == hist = << >> /\ RmDiffCall(1..MaxFail)

NextFail == get_r_fail \/ put_r_fail \/ put_diff_fail \/ rm_r_fail \/ rm_diff_fail

SpecFail == Init /\ [][NextFail]_vars

\* ------------------------------------------------ snapshots on their own
\* the nodes under p in depth-first pre-order
RECURSIVE PreOrder(_, _)
PreOrder(fs, ps) ==
  IF ps = << >> THEN << >>
  ELSE <<Head(ps)>> \o PreOrder(fs, Children(fs, Head(ps))) \o PreOrder(fs, Tail(ps))

\* a snapshot of the local tree under root, as _local_tree captures it
LocalSnap(root) == LocalTree(NewRun(loc, rem, 0), root).v

\* a snapshot of the remote tree: a TreeList of WebPath handles, each
\* holding the attributes of its node
WebSnap ==
  LET ps == PreOrder(rem, Children(rem, R)) IN
  TreeList(R, [ i \in 1..Len(ps) |-> WebPathInit(ps[i], rem[ps[i]]) ])

\* two local trees and a remote tree to take snapshots of
InitTree ==
  /\ \E sT \in Shapes, sL \in Shapes, f \in 0..MaxFrac, ls \in 1..MaxSec :
       loc = Merge(TreeOf(T, sT, Time(1, f), 1), TreeOf(L, sL, Time(ls, 0), 1))
  /\ \E sR \in Shapes : rem = TreeOf(R, sR, Time(1, 0), 2)
  /\ hist = << >>
  /\ snap = NoSnap
  /\ NoneInHand

Compared(op, a, b, x) ==
  /\ snap' = [op |-> op, a |-> a, b |-> b, out |-> x.v, err |-> x.r.err]
  /\ UNCHANGED <<loc, rem, hist, handle, stream, session>>

\* a.diff(b)
diff ==
  /\ snap.op = "none"
  /\ \E a \in {LocalSnap(T), WebSnap}, b \in {LocalSnap(T), LocalSnap(L), WebSnap} :
       \E x \in {Diff(NewRun(loc, rem, 0), a, b)} : Compared("diff", a, b, x)

\* a.mod(b)
mod ==
  /\ snap.op = "none"
  /\ \E a \in {LocalSnap(T), WebSnap}, b \in {LocalSnap(T), LocalSnap(L), WebSnap} :
       \E x \in {Mod(NewRun(loc, rem, 0), a, b)} : Compared("mod", a, b, x)

NextTree == diff \/ mod

SpecTree == InitTree /\ [][NextTree]_vars

\* ------------------------------------------- the typed views of a snapshot
\* TreeList.directories, consumed to the end: filter(lambda p: p.is_dir(),
\* self.paths), from element i on
RECURSIVE Directories(_, _, _)
Directories(r, tree, i) ==
  IF ~Ok(r) \/ i > Len(tree.paths) THEN Ret(r, << >>)
  ELSE The({ The({ Ret(rest.r, (IF d.v THEN <<tree.paths[i]>> ELSE << >>) \o rest.v)
                   : rest \in {Directories(d.r, tree, i + 1)} })
             : d \in {IsDir(r, tree.paths[i])} })

\* TreeList.files: filter(lambda p: p.is_file(), self.paths)
RECURSIVE Files(_, _, _)
Files(r, tree, i) ==
  IF ~Ok(r) \/ i > Len(tree.paths) THEN Ret(r, << >>)
  ELSE The({ The({ Ret(rest.r, (IF f.v THEN <<tree.paths[i]>> ELSE << >>) \o rest.v)
                   : rest \in {Files(f.r, tree, i + 1)} })
             : f \in {IsFile(r, tree.paths[i])} })

\* p.is_dir, read and not called: the bound method of a Path or a WebPath,
\* which is true; a bool has no such attribute
IsDirAttr(r, h) ==
  IF ~Ok(r) THEN Ret(r, FALSE)
  ELSE IF h.kind = "bool" THEN Ret(Fail(r, "AttributeError"), FALSE)
  ELSE Ret(r, TRUE)

\* TreeList.unknowns: filter(lambda p: not (p.is_dir or p.is_file()),
\* self.paths); "or" calls is_file() only when p.is_dir is false
RECURSIVE Unknowns(_, _, _)
Unknowns(r, tree, i) ==
  IF ~Ok(r) \/ i > Len(tree.paths) THEN Ret(r, << >>)
  ELSE The({ The({ The({ Ret(rest.r, (IF ~(d.v \/ f.v) THEN <<tree.paths[i]>> ELSE << >>)
                                       \o rest.v)
                         : rest \in {Unknowns(f.r, tree, i + 1)} })
                   : f \in {IF d.v THEN Ret(d.r, FALSE) ELSE IsFile(d.r, tree.paths[i])} })
             : d \in {IsDirAttr(r, tree.paths[i])} })

\* node types of a tree that also holds nodes that are neither a directory
\* nor a regular file (a socket, a fifo, a dangling link)
ShapesAny == { s \in [U -> {"none", "dir", "file", "other"}] :
                 \A u \in U : (s[u] # "none" /\ Len(u) > 1) => s[Parent(u)] = "dir" }

InitViews ==
  /\ \E sT \in ShapesAny : loc = Merge(TreeOf(T, sT, Time(1, 0), 1), NoTree(L))
  /\ \E sR \in ShapesAny : rem = TreeOf(R, sR, Time(1, 0), 2)
  /\ hist = << >>
  /\ snap = NoSnap
  /\ NoneInHand

\* list(a.directories), list(a.files), list(a.unknowns) of a snapshot a
views ==
  /\ snap.op = "none"
  /\ \E a \in {LocalSnap(T), WebSnap} :
       \E d \in {Directories(NewRun(loc, rem, 0), a, 1)} :
         \E f \in {Files(d.r, a, 1)} :
           \E u \in {Unknowns(f.r, a, 1)} :
             snap' = [op |-> "views", a |-> a, b |-> NoTreeList,
                      out |-> [directories |-> d.v, files |-> f.v, unknowns |-> u.v],
                      err |-> u.r.err]
  /\ UNCHANGED <<loc, rem, hist, handle, stream, session>>

NextViews == views

SpecViews == InitViews /\ [][NextViews]_vars

\* --------------------------------------------------- a path handle in use
\* the node the handle names
HandlePath == R \o <<"a">>

\* SFTPClient.open of paramiko: "r" needs the file to be there, "w" makes
\* it or empties it
RemoteOpen(r, p, mode) ==
  IF ~Ok(r) THEN r
  ELSE LET r1 == Logged(r, "open", p) IN
       IF Rejected(r) THEN Fail(r1, "PermissionError")
       ELSE IF mode = "r"
            THEN (IF ~Exists(r.rem, p) THEN Fail(r1, "FileNotFoundError")
                  ELSE IF IsDirNode(r.rem, p) THEN Fail(r1, "IOError")
                  ELSE r1)
       ELSE IF ~IsDirNode(r.rem, Parent(p)) \/ p \notin DOMAIN r.rem
            THEN Fail(r1, "FileNotFoundError")
       ELSE IF IsDirNode(r.rem, p) THEN Fail(r1, "IOError")
       ELSE [r1 EXCEPT !.rem[p] = MkNode("file", Now, 0)]

\* the CMD_OPEN request of touch, flags CREATE | WRITE and, unless
\* exist_ok, EXCL: makes the file when it is missing, leaves it as it is
\* otherwise; then CMD_CLOSE of the handle
RemoteTouch(r, p, exist_ok) ==
  IF ~Ok(r) THEN r
  ELSE LET r1 == Logged(r, "open", p) IN
       IF Rejected(r) THEN Fail(r1, "PermissionError")
       ELSE IF ~IsDirNode(r.rem, Parent(p)) \/ p \notin DOMAIN r.rem
            THEN Fail(r1, "FileNotFoundError")
       ELSE IF IsDirNode(r.rem, p) \/ (Exists(r.rem, p) /\ ~exist_ok)
            THEN Fail(r1, "IOError")
       ELSE IF Exists(r.rem, p) THEN r1
       ELSE [r1 EXCEPT !.rem[p] = MkNode("file", Now, 0)]

\* a write through an open file of the backend: the file grows and is
\* stamped
RemoteWrite(r, p) ==
  IF ~Ok(r) THEN r
  ELSE [Logged(r, "write", p) EXCEPT !.rem[p].data = @ + 1, !.rem[p].mtime = Now]

\* WebPath._reset_stat
ResetStat(h) == [h EXCEPT !.st = Absent]

\* WebPath.open, mkdir, rmdir, touch, unlink: the cache is reset, then the
\* accessor is called; the run and the handle afterwards
WebOpen(r, h, mode) == [r |-> RemoteOpen(r, h.path, mode), h |-> ResetStat(h)]
WebMkdir(r, h) == [r |-> RemoteMkdir(r, h.path), h |-> ResetStat(h)]
WebRmdir(r, h) == [r |-> RemoteRmdir(r, h.path), h |-> ResetStat(h)]
WebTouch(r, h, exist_ok) == [r |-> RemoteTouch(r, h.path, exist_ok), h |-> ResetStat(h)]
WebUnlink(r, h) == [r |-> RemoteRemove(r, h.path), h |-> ResetStat(h)]

\* a fresh handle of HandlePath, sftp.Path(p), on any remote tree
InitHandle ==
  /\ loc = Merge(NoTree(T), NoTree(L))
  /\ \E sR \in Shapes, rs \in 1..MaxSec : rem = TreeOf(R, sR, Time(rs, 0), 1)
  /\ hist = << >>
  /\ snap = NoSnap
  /\ handle = [state |-> "bound", h |-> WebPathInit(HandlePath, Absent),
               op |-> "new", ret |-> Absent, err |-> "none", n |-> 0]
  /\ stream = NoStream
  /\ session = NoSession

\* what a call through the handle leaves: the backend, the handle with its
\* cache, the call with what it returned or raised
Called(op, r, h, v) ==
  /\ rem' = r.rem
  /\ handle' = [handle EXCEPT !.h = h, !.op = op, !.ret = v, !.err = r.err,
                              !.n = @ + 1]
  /\ UNCHANGED <<loc, hist, snap, session>>

h_stat ==
  /\ handle.n < MaxCalls
  /\ \E s \in {WebStat(NewRun(loc, rem, 0), handle.h)} : Called("stat", s.r, s.h, s.v)
  /\ UNCHANGED stream

\* f = h.open(mode): the stream is in the caller's hands when open() returns
h_open ==
  /\ handle.n < MaxCalls
  /\ stream.state # "open"
  /\ \E mode \in {"r", "w"} :
       \E x \in {WebOpen(NewRun(loc, rem, 0), handle.h, mode)} :
         /\ Called("open", x.r, x.h, Absent)
         /\ stream' = IF Ok(x.r) THEN [state |-> "open", mode |-> mode] ELSE stream

\* f.write(data) on the stream open() returned
s_write ==
  /\ handle.n < MaxCalls
  /\ stream.state = "open" /\ stream.mode = "w"
  /\ rem[handle.h.path].type = "file" /\ rem[handle.h.path].data < MaxSize
  /\ \E r \in {RemoteWrite(NewRun(loc, rem, 0), handle.h.path)} :
       Called("write", r, handle.h, Absent)
  /\ UNCHANGED stream

\* f.close()
s_close ==
  /\ handle.n < MaxCalls
  /\ stream.state = "open"
  /\ Called("close", NewRun(loc, rem, 0), handle.h, Absent)
  /\ stream' = [stream EXCEPT !.state = "closed"]

h_mkdir ==
  /\ handle.n < MaxCalls
  /\ \E x \in {WebMkdir(NewRun(loc, rem, 0), handle.h)} : Called("mkdir", x.r, x.h, Absent)
  /\ UNCHANGED stream

h_rmdir ==
  /\ handle.n < MaxCalls
  /\ \E x \in {WebRmdir(NewRun(loc, rem, 0), handle.h)} : Called("rmdir", x.r, x.h, Absent)
  /\ UNCHANGED stream

h_touch ==
  /\ handle.n < MaxCalls
  /\ \E exist_ok \in BOOLEAN :
       \E x \in {WebTouch(NewRun(loc, rem, 0), handle.h, exist_ok)} :
         Called("touch", x.r, x.h, Absent)
  /\ UNCHANGED stream

\* h.unlink(): a stream still open on the file holds a file no path names
h_unlink ==
  /\ handle.n < MaxCalls
  /\ \E x \in {WebUnlink(NewRun(loc, rem, 0), handle.h)} :
       /\ Called("unlink", x.r, x.h, Absent)
       /\ stream' = IF Ok(x.r) /\ stream.state = "open"
                    THEN [stream EXCEPT !.state = "orphan"] ELSE stream

NextHandle ==
  h_stat \/ h_open \/ s_write \/ s_close \/ h_mkdir \/ h_rmdir \/ h_touch \/ h_unlink

SpecHandle == InitHandle /\ [][NextHandle]_vars

\* ------------------------------------------------------ a session scope
\* The scope "with SFTPClient(**cfg) as sftp: body".  ssh and sftp are the
\* SSH client and the SFTP channel ("closed", "open", or "failed" after a
\* close() that raised), err the exception propagating, files the streams
\* opened in the body, scopes the FileHandler scopes not left yet,
\* innermost last.
NewSession ==
  [state |-> "new", ssh |-> "closed", sftp |-> "closed", err |-> "none",
   files |-> << >>, scopes |-> << >>, touched |-> 0]

\* ClientHandler.__init__: self.client.connect(**config)
ClientHandlerInit(s, connect_ok) ==
  IF connect_ok THEN [s EXCEPT !.ssh = "open"] ELSE [s EXCEPT !.err = "SSHException"]

\* ClientHandler.sftp: SFTPHandler.from_transport(...)
ClientHandlerSftp(s, sftp_ok) ==
  IF s.err # "none" THEN s
  ELSE IF sftp_ok THEN [s EXCEPT !.sftp = "open"]
  ELSE [s EXCEPT !.err = "SSHException"]

\* ClientHandler.close
ClientHandlerClose(s) == [s EXCEPT !.ssh = "closed"]

\* ClientSFTPHandler.from_config
FromConfig(s, connect_ok, sftp_ok) ==
  ClientHandlerSftp(ClientHandlerInit(s, connect_ok), sftp_ok)

\* ClientSFTPHandler.close: self.sftp.close(), then self.client.close()
ClientSFTPHandlerClose(s, close_ok) ==
  IF close_ok THEN ClientHandlerClose([s EXCEPT !.sftp = "closed"])
  ELSE [s EXCEPT !.sftp = "failed", !.err = "EOFError"]

InitSession ==
  /\ loc = Merge(NoTree(T), NoTree(L))
  /\ rem = NoTree(R)
  /\ hist = << >>
  /\ snap = NoSnap
  /\ handle = NoWebPath
  /\ stream = NoStream
  /\ session = NewSession

\* SFTPClient up to its yield: an exception of sftp_connect leaves the
\* function before the try
enter ==
  /\ session.state = "new"
  /\ \E connect_ok \in BOOLEAN, sftp_ok \in BOOLEAN :
       \E s \in {FromConfig(session, connect_ok, sftp_ok)} :
         session' = [s EXCEPT !.state = IF s.err = "none" THEN "body" ELSE "left"]
  /\ UNCHANGED <<loc, rem, hist, snap, handle, stream>>

\* "with sftp.open(...) as f:" in the body
f_enter ==
  /\ session.state = "body" /\ session.err = "none"
  /\ Len(session.files) < MaxFiles
  /\ \E open_ok \in BOOLEAN :
       session' = IF open_ok
                  THEN [session EXCEPT !.files = Append(@, "open"),
                                       !.scopes = Append(@, Len(session.files) + 1)]
                  ELSE [session EXCEPT !.err = "IOError"]
  /\ UNCHANGED <<loc, rem, hist, snap, handle, stream>>

\* Handler.__exit__ of the innermost FileHandler scope, left normally or by
\* the exception propagating: FileHandler.close
f_exit ==
  /\ session.state = "body" /\ session.scopes # << >>
  /\ session' = [session EXCEPT
                   !.files[session.scopes[Len(session.scopes)]] = "closed",
                   !.scopes = SubSeq(@, 1, Len(@) - 1)]
  /\ UNCHANGED <<loc, rem, hist, snap, handle, stream>>

\* WebPath.touch in the body: when the CMD_CLOSE request raises, the
\* except clause names Excpetion, which is no name, and NameError leaves
\* touch
touch ==
  /\ session.state = "body" /\ session.err = "none"
  /\ session.touched < MaxTouch
  /\ \E close_ok \in BOOLEAN :
       session' = [session EXCEPT !.touched = @ + 1,
                                  !.err = IF close_ok THEN "none" ELSE "NameError"]
  /\ UNCHANGED <<loc, rem, hist, snap, handle, stream>>

\* the body raises
body_raise ==
  /\ session.state = "body" /\ session.err = "none"
  /\ session' = [session EXCEPT !.err = "Exception"]
  /\ UNCHANGED <<loc, rem, hist, snap, handle, stream>>

\* SFTPClient from its yield on, the body having returned or raised:
\* finally: sftp_handler.close()
leave ==
  /\ session.state = "body" /\ session.scopes = << >>
  /\ \E close_ok \in BOOLEAN :
       \E s \in {ClientSFTPHandlerClose(session, close_ok)} :
         session' = [s EXCEPT !.state = "left"]
  /\ UNCHANGED <<loc, rem, hist, snap, handle, stream>>

NextSession == enter \/ f_enter \/ f_exit \/ touch \/ body_raise \/ leave

SpecSession == InitSession /\ [][NextSession]_vars

\* ------------------------------------------------------ a stream in use
\* A str is the sequence of its code points, a bytes object the sequence of
\* its bytes.
Chars == {65, 233, 8364}        \* "A", e acute, the euro sign
Bytes == {65, 195, 169}
Encodings == {"utf-8", "latin-1", "none"}    \* "none": encoding=None
SeqsUpTo(S, n) == UNION { [1..k -> S] : k \in 0..n }
Texts == SeqsUpTo(Chars, MaxLen)
ByteSeqs == SeqsUpTo(Bytes, MaxLen)

\* the file the streams are opened on
StreamPath == R \o <<"b">>

\* one code point in UTF-8
Utf8(cp) ==
  IF cp < 128 THEN <<cp>>
  ELSE IF cp < 2048 THEN <<192 + (cp \div 64), 128 + (cp % 64)>>
  ELSE <<224 + (cp \div 4096), 128 + ((cp \div 64) % 64), 128 + (cp % 64)>>

\* str.encode(encoding): the bytes, or the exception
RECURSIVE StrEncode(_, _)
StrEncode(text, encoding) ==
  IF encoding = "none" THEN [err |-> "TypeError", v |-> << >>]
  ELSE IF text = << >> THEN [err |-> "none", v |-> << >>]
  ELSE IF encoding = "latin-1" /\ Head(text) >= 256
       THEN [err |-> "UnicodeEncodeError", v |-> << >>]
  ELSE The({ IF rest.err # "none" THEN rest
             ELSE [err |-> "none",
                   v |-> (IF encoding = "latin-1" THEN <<Head(text)>>
                          ELSE Utf8(Head(text))) \o rest.v]
             : rest \in {StrEncode(Tail(text), encoding)} })

IsCont(b) == b >= 128 /\ b < 192

\* the length of the UTF-8 sequence that begins b, 0 when none does
Utf8Len(b) ==
  IF Head(b) < 128 THEN 1
  ELSE IF Head(b) >= 194 /\ Head(b) < 224 /\ Len(b) >= 2 /\ IsCont(b[2]) THEN 2
  ELSE IF /\ Head(b) >= 224 /\ Head(b) < 240 /\ Len(b) >= 3
          /\ IsCont(b[2]) /\ IsCont(b[3])
          /\ (Head(b) - 224) * 4096 + (b[2] - 128) * 64 >= 2048
       THEN 3
  ELSE 0

\* the code point of a UTF-8 sequence of n bytes
Utf8Point(b, n) ==
  IF n = 1 THEN b[1]
  ELSE IF n = 2 THEN (b[1] - 192) * 64 + (b[2] - 128)
  ELSE (b[1] - 224) * 4096 + (b[2] - 128) * 64 + (b[3] - 128)

\* bytes.decode(encoding): the str, or the exception
RECURSIVE BytesDecode(_, _)
BytesDecode(b, encoding) ==
  IF encoding = "none" THEN [err |-> "TypeError", v |-> << >>]
  ELSE IF b = << >> THEN [err |-> "none", v |-> << >>]
  ELSE IF encoding = "latin-1"
       THEN [err |-> "none", v |-> b]
  ELSE The({ IF n = 0 THEN [err |-> "UnicodeDecodeError", v |-> << >>]
             ELSE The({ IF rest.err # "none" THEN rest
                        ELSE [err |-> "none", v |-> <<Utf8Point(b, n)>> \o rest.v]
                        : rest \in {BytesDecode(SubSeq(b, n + 1, Len(b)), encoding)} })
             : n \in {Utf8Len(b)} })

\* a FileHandler: the file of the backend under it (its mode, its position)
\* and the encoding it was made with
FileHandlerInit(mode, encoding) ==
  [state |-> "open", mode |-> mode, encoding |-> encoding, pos |-> 0]

\* FileHandler._is_binary: the FLAG_BINARY of the file, set by "b" in mode
IsBinary(f) == f.mode \in {"rb", "wb"}

\* FileHandler.read(size), size 0 standing for None: the bytes from the
\* position on, decoded unless the file is binary
FileRead(f, data, size) ==
  The({ IF IsBinary(f) THEN [err |-> "none", v |-> text, n |-> Len(text)]
        ELSE The({ [err |-> d.err, v |-> d.v, n |-> Len(text)]
                   : d \in {BytesDecode(text, f.encoding)} })
        : text \in {SubSeq(data, f.pos + 1,
                           IF size = 0 \/ f.pos + size > Len(data)
                           THEN Len(data) ELSE f.pos + size)} })

\* FileHandler.write as it would be if it encoded with latin-1 whatever
\* encoding the stream was made with
FileWriteAsLatin1(f, data, text) ==
  IF IsBinary(f) THEN [err |-> "none", data |-> SubSeq(data, 1, f.pos) \o text,
                       n |-> Len(text)]
  ELSE The({ IF e.err # "none" THEN [err |-> e.err, data |-> data, n |-> 0]
             ELSE [err |-> "none", data |-> SubSeq(data, 1, f.pos) \o e.v,
                   n |-> Len(e.v)]
             : e \in {StrEncode(text, "latin-1")} })

\* FileHandler.write(text): encoded unless the file is binary, then written
\* at the position; the contents of the file afterwards
FileWrite(f, data, text) ==
  IF IsBinary(f) THEN [err |-> "none", data |-> SubSeq(data, 1, f.pos) \o text,
                       n |-> Len(text)]
  ELSE The({ IF e.err # "none" THEN [err |-> e.err, data |-> data, n |-> 0]
             ELSE [err |-> "none", data |-> SubSeq(data, 1, f.pos) \o e.v,
                   n |-> Len(e.v)]
             : e \in {StrEncode(text, f.encoding)} })

\* the last call on a stream
NoCall == [op |-> "none", arg |-> << >>, ret |-> << >>, err |-> "none",
           pos |-> 0, before |-> << >>]

\* said: the strings written to the file since it was emptied, as long as
\* all of it was written as text in UTF-8
Unsaid == [valid |-> FALSE, text |-> << >>]

InitStream ==
  /\ loc = Merge(NoTree(T), NoTree(L))
  /\ \E d \in ByteSeqs :
       rem = [NoTree(R) EXCEPT ![R] = MkNode("dir", Time(1, 0), 0),
                               ![StreamPath] = MkNode("file", Time(1, 0), d)]
  /\ hist = << >>
  /\ snap = NoSnap
  /\ handle = NoWebPath
  /\ stream = [state |-> "closed", f |-> FileHandlerInit("rb", "none"),
               last |-> NoCall, said |-> Unsaid, n |-> 0]
  /\ session = NoSession

\* f = sftp.open(StreamPath, mode, encoding=encoding): "w" empties the
\* file, whose contents are here the bytes themselves, not their number
open ==
  /\ stream.n < MaxIO
  /\ stream.state = "closed"
  /\ \E mode \in {"r", "rb", "w", "wb"}, encoding \in Encodings :
       \E r \in {RemoteOpen(NewRun(loc, rem, 0), StreamPath,
                            IF mode \in {"r", "rb"} THEN "r" ELSE "w")} :
         /\ rem' = IF mode \in {"r", "rb"} THEN r.rem
                    ELSE [r.rem EXCEPT ![StreamPath].data = << >>]
         /\ stream' = [stream EXCEPT
               !.state = "open",
               !.f = FileHandlerInit(mode, encoding),
               !.last = [NoCall EXCEPT !.op = "open"],
               !.said = IF mode \in {"w", "wb"} THEN [valid |-> TRUE, text |-> << >>]
                        ELSE @,
               !.n = @ + 1]
  /\ UNCHANGED <<loc, hist, snap, handle, session>>

\* f.read(size)
read ==
  /\ stream.n < MaxIO
  /\ stream.state = "open" /\ stream.f.mode \in {"r", "rb"}
  /\ \E size \in 0..MaxLen :
       \E x \in {FileRead(stream.f, rem[StreamPath].data, size)} :
         stream' = [stream EXCEPT
               !.f.pos = @ + x.n,
               !.last = [op |-> "read", arg |-> size, ret |-> x.v, err |-> x.err,
                         pos |-> stream.f.pos, before |-> rem[StreamPath].data],
               !.n = @ + 1]
  /\ UNCHANGED <<loc, rem, hist, snap, handle, session>>

\* f.write(text): a str on a text stream, a bytes object on a binary one
write ==
  /\ stream.n < MaxIO
  /\ stream.state = "open" /\ stream.f.mode \in {"w", "wb"}
  /\ \E text \in (IF IsBinary(stream.f) THEN ByteSeqs ELSE Texts) :
       \E x \in {FileWrite(stream.f, rem[StreamPath].data, text)} :
         /\ rem' = [rem EXCEPT ![StreamPath].data = x.data]
         /\ stream' = [stream EXCEPT
               !.f.pos = @ + x.n,
               !.last = [op |-> "write", arg |-> text, ret |-> << >>, err |-> x.err,
                         pos |-> stream.f.pos, before |-> rem[StreamPath].data],
               !.said = IF x.err # "none" THEN @
                        ELSE IF ~IsBinary(stream.f) /\ stream.f.encoding = "utf-8"
                             THEN [@ EXCEPT !.text = @ \o text]
                        ELSE IF text = << >> THEN @
                        ELSE Unsaid,
               !.n = @ + 1]
  /\ UNCHANGED <<loc, hist, snap, handle, session>>

\* f.close()
close ==
  /\ stream.n < MaxIO
  /\ stream.state = "open"
  /\ stream' = [stream EXCEPT !.state = "closed",
                              !.last = [NoCall EXCEPT !.op = "close"],
                              !.n = @ + 1]
  /\ UNCHANGED <<loc, rem, hist, snap, handle, session>>

NextStream == open \/ read \/ write \/ close

SpecStream == InitStream /\ [][NextStream]_vars

\* ----------------------------------------------------------------- claims
\* what the claims speak of, stated on the filesystems and not through the
\* code: the relative path of a handle, its comparison key, the walk order
RelOf(tree, h) == Suffix(tree.root, h.path)
MtimeOf(h) == IF h.kind = "local" THEN Lookup(loc, h.path).mtime ELSE h.st.mtime
KeyOf(tree, h) == <<RelOf(tree, h), MtimeOf(h).sec>>
RelsOf(tree) == { RelOf(tree, tree.paths[i]) : i \in 1..Len(tree.paths) }
KeysOf(tree) == { KeyOf(tree, tree.paths[i]) : i \in 1..Len(tree.paths) }

\* C1: a.diff(b) returns a TreeList with a's root holding exactly the
\* handles of a, in a's order, whose relative path is not a relative path
\* of b; in particular a.diff(a) holds no path
C1_DiffIsExistenceDiff ==
  snap.op = "diff" =>
    LET Kept(h) == RelOf(snap.a, h) \notin RelsOf(snap.b) IN
    /\ snap.err = "none"
    /\ snap.out.root = snap.a.root
    /\ snap.out.paths = SelectSeq(snap.a.paths, Kept)
    /\ (snap.a = snap.b => snap.out.paths = << >>)

\* C2: a.mod(b) returns exactly the handles of a, in a's order, whose key
\* (relative path, mtime in whole seconds) is not a key of b; in particular
\* a.mod(a) holds no path
C2_ModIsContentDiff ==
  snap.op = "mod" =>
    LET Kept(h) == KeyOf(snap.a, h) \notin KeysOf(snap.b) IN
    /\ snap.err = "none"
    /\ snap.out.root = snap.a.root
    /\ snap.out.paths = SelectSeq(snap.a.paths, Kept)
    /\ (snap.a = snap.b => snap.out.paths = << >>)

\* the non-root nodes of the tree under root, in walk order
WalkOrder(fs, root) == PreOrder(fs, Children(fs, root))
Last(h) == h[Len(h)]
IsRemoval(c) == c.op \in {"remove", "rmdir"}
Calls(e, op) == { i \in 1..Len(e.log) : e.log[i].op = op }
Reverse(s) == [ i \in 1..Len(s) |-> s[Len(s) + 1 - i] ]
Call(op, p) == [op |-> op, path |-> p]
EmptyTree(fs, root) == \A p \in Under(root) : p # root => ~Exists(fs, p)

\* the removals that empty the tree under root: a remove for every file in
\* walk order, then an rmdir for every directory in reverse walk order
RemovalsOf(fs, ps) ==
  LET IsF(p) == fs[p].type = "file"
      IsD(p) == fs[p].type = "dir"
      fl == SelectSeq(ps, IsF)
      dl == Reverse(SelectSeq(ps, IsD))
  IN [ i \in 1..Len(fl) |-> Call("remove", fl[i]) ]
     \o [ i \in 1..Len(dl) |-> Call("rmdir", dl[i]) ]

\* C3: rm_r completes without an error, having removed every file and then
\* every directory in reverse walk order, and nothing else (the root, when
\* asked for, last)
C3_RmRFilesThenDirsReversed ==
  (hist # << >> /\ Last(hist).op = "rm_r") =>
    LET e == Last(hist) IN
    /\ e.err = "none"
    /\ SelectSeq(e.log, IsRemoval)
         = RemovalsOf(e.rem0, WalkOrder(e.rem0, R))
           \o (IF e.flag THEN <<Call("rmdir", R)>> ELSE << >>)
    /\ EmptyTree(rem, R)

\* C4: get_r completes without an error on every remote tree and every
\* destination; every directory of the remote tree is created locally
\* before the first file is transferred, and every file is transferred
C4_GetRDirsBeforeFiles ==
  (hist # << >> /\ Last(hist).op = "get_r") =>
    LET e == Last(hist) IN
    /\ e.err = "none"
    /\ \A u \in U :
         /\ e.rem0[R \o u].type = "dir" =>
              /\ \E i \in Calls(e, "os.mkdir") :
                   /\ e.log[i].path = L \o u
                   /\ \A j \in Calls(e, "get") : i < j
              /\ IsDirNode(loc, L \o u)
         /\ e.rem0[R \o u].type = "file" =>
              /\ \E j \in Calls(e, "get") : e.log[j].path = R \o u
              /\ loc[L \o u].type = "file"

C6_PutRThenGetRRoundTrip ==
  (/\ Len(hist) = 2
   /\ hist[1].op = "put_r" /\ hist[2].op = "get_r"
   /\ EmptyTree(hist[1].rem0, R) /\ EmptyTree(hist[1].loc0, L))
  => \A u \in U :
       /\ loc[L \o u].type = hist[1].loc0[T \o u].type
       /\ loc[L \o u].data = hist[1].loc0[T \o u].data

\* C7: rm_diff and then rm_r on a remote tree that is empty: neither raises,
\* neither issues a remote call but the listing of the root
C7_RmOnEmptyRemoteIsNoOp ==
  (/\ Len(hist) = 2
   /\ hist[1].op = "rm_diff" /\ hist[2].op = "rm_r" /\ ~hist[2].flag
   /\ EmptyTree(hist[1].rem0, R))
  => \A i \in 1..2 :
       /\ hist[i].err = "none"
       /\ \A j \in 1..Len(hist[i].log) :
            hist[i].log[j] \in {Call("listdir_attr", R), Call("rglob", T)}
       /\ Cardinality(Calls(hist[i], "listdir_attr")) = 1

\* C8: rm_diff removes the remote entries whose relative path is not in the
\* local tree, files first and then directories in reverse walk order, and
\* issues no removal for any other entry
C8_RmDiffRemovesExactlyTheAbsent ==
  (hist # << >> /\ Last(hist).op = "rm_diff") =>
    LET e == Last(hist)
        Gone(p) == ~Exists(e.loc0, T \o Suffix(R, p))
    IN /\ e.err = "none"
       /\ SelectSeq(e.log, IsRemoval)
            = RemovalsOf(e.rem0, SelectSeq(WalkOrder(e.rem0, R), Gone))
       /\ \A u \in U :
            Exists(rem, R \o u) <=> (Exists(e.rem0, R \o u) /\ ~Gone(R \o u))

\* C9: an upload that preserves times leaves every remote node it handled
\* with the access and modification time of its local node, in whole
\* seconds, and changes the times of no local node
Handled(e, u) == \E i \in 1..Len(e.log) : e.log[i].path = R \o u
C9_UploadCopiesLocalTimesToRemote ==
  (/\ hist # << >>
   /\ Last(hist).op \in {"put_r", "put_diff"}
   /\ Last(hist).flag /\ Last(hist).err = "none")
  => LET e == Last(hist) IN
     /\ \A u \in U : Handled(e, u) =>
          /\ rem[R \o u].mtime = Trunc(e.loc0[T \o u].mtime)
          /\ rem[R \o u].atime = Trunc(e.loc0[T \o u].atime)
     /\ \A p \in LocalPaths :
          loc[p].mtime = e.loc0[p].mtime /\ loc[p].atime = e.loc0[p].atime

\* C10: a stat the backend rejects with permission denied reaches the
\* caller of the operation as that error, whichever query issued the stat;
\* only a missing node is answered with False
C10_OnlyNotFoundIsSwallowed ==
  \A i \in 1..Len(hist) :
    (hist[i].failAt > 0 /\ hist[i].log[hist[i].failAt].op = "stat")
      => hist[i].err = "PermissionError"

\* the calls a tree operation issues against the backend and the local
\* filesystem: listing, mkdir, get, put, remove, rmdir, stat, set-times
Primitives == {"listdir_attr", "mkdir", "get", "put", "remove", "rmdir", "stat",
               "utime", "os.stat", "os.utime", "os.mkdir"}

\* C11: when the backend rejects a call of a tree operation, that call is
\* the last one the operation issues (no retry, no rollback, no further
\* step) and its error is what the caller gets
C11_FailedCallAbortsTheOperation ==
  \A i \in 1..Len(hist) :
    (hist[i].failAt > 0 /\ hist[i].log[hist[i].failAt].op \in Primitives)
      => /\ Len(hist[i].log) = hist[i].failAt
         /\ hist[i].err = "PermissionError"

\* the mkdir and put calls of a run
Creations(e) == Calls(e, "mkdir") \cup Calls(e, "put")

\* C13: in an upload every mkdir comes before every put; a mkdir is issued
\* only for a path below the root that is not a directory yet, once; and the
\* parent of every path created or written is a directory by then, already
\* there before the run or made by an earlier mkdir of the run
C13_UploadMakesDirectoriesFirst ==
  \A i \in 1..Len(hist) :
    hist[i].op \in {"put_r", "put_diff"} =>
      LET e == hist[i] IN
      /\ \A m \in Calls(e, "mkdir"), p \in Calls(e, "put") : m < p
      /\ \A m \in Calls(e, "mkdir") :
           /\ e.log[m].path # R
           /\ ~IsDirNode(e.rem0, e.log[m].path)
           /\ \A j \in Calls(e, "mkdir") : j < m => e.log[j].path # e.log[m].path
      /\ \A k \in Creations(e) :
           \/ IsDirNode(e.rem0, Parent(e.log[k].path))
           \/ \E j \in Calls(e, "mkdir") :
                j < k /\ e.log[j].path = Parent(e.log[k].path)

\* an upload onto a remote root that makes a directory, a directory inside
\* it and then writes a file into the inner one
C13_NestedUpload ==
  /\ hist # << >>
  /\ Last(hist).op = "put_r" /\ Last(hist).err = "none"
  /\ \E i, j, k \in 1..Len(Last(hist).log) :
       /\ i < j /\ j < k
       /\ Last(hist).log[i] = Call("mkdir", R \o <<"a">>)
       /\ Last(hist).log[j] = Call("mkdir", R \o <<"a", "b">>)
       /\ Last(hist).log[k] = Call("put", R \o <<"a", "b", "c">>)

\* the operations that begin by capturing the remote tree
WalksRemote == {"get_r", "put_diff", "rm_r", "rm_diff"}
IsListing(c) == c.op = "listdir_attr"

\* the listings of a depth-first pre-order walk of the tree under root: the
\* root, then every directory in walk order, each once
ListingsOf(fs, root) ==
  LET IsD(p) == fs[p].type = "dir"
      ds == <<root>> \o SelectSeq(WalkOrder(fs, root), IsD)
  IN [ i \in 1..Len(ds) |-> Call("listdir_attr", ds[i]) ]

\* C14: the walk of the remote tree is completed, and it lists the root and
\* then every directory beneath it exactly once, in depth-first pre-order
C14_RemoteWalkIsPreOrder ==
  \A i \in 1..Len(hist) :
    hist[i].op \in WalksRemote =>
      /\ hist[i].err # "NameError"
      /\ SelectSeq(hist[i].log, IsListing) = ListingsOf(hist[i].rem0, R)

\* C15: rm_r asked to remove the root ends with the rmdir of the root as its
\* last removal, the tree beneath and the root itself gone; rm_r not asked
\* to never issues an rmdir of the root, which stays
C15_RmRRemovesRootLast ==
  \A i \in 1..Len(hist) :
    hist[i].op = "rm_r" =>
      LET e == hist[i]
          rs == SelectSeq(e.log, IsRemoval)
          after == IF i = Len(hist) THEN rem ELSE hist[i + 1].rem0
      IN IF e.flag
         THEN /\ rs # << >>
              /\ Last(rs) = Call("rmdir", R)
              /\ \A j \in 1..(Len(rs) - 1) : rs[j] # Call("rmdir", R)
              /\ \A p \in RemotePaths : ~Exists(after, p)
         ELSE /\ \A j \in 1..Len(rs) : rs[j] # Call("rmdir", R)
              /\ IsDirNode(after, R)

\* the calls that change the remote tree, and those that change the local one
RemoteMutators == {"mkdir", "put", "remove", "rmdir", "utime"}
LocalMutators == {"os.mkdir", "os.utime", "get"}

\* C18: get_r issues no call that changes the remote tree and leaves it as
\* it was; put_r, put_diff, rm_r and rm_diff issue no call that changes the
\* local tree and leave it as it was
C18_OnlyTheDestinationChanges ==
  \A i \in 1..Len(hist) :
    LET e == hist[i]
        locAfter == IF i = Len(hist) THEN loc ELSE hist[i + 1].loc0
        remAfter == IF i = Len(hist) THEN rem ELSE hist[i + 1].rem0
    IN /\ e.op = "get_r" =>
            /\ remAfter = e.rem0
            /\ \A j \in 1..Len(e.log) : e.log[j].op \notin RemoteMutators
       /\ e.op \in {"put_r", "put_diff", "rm_r", "rm_diff"} =>
            /\ locAfter = e.loc0
            /\ \A j \in 1..Len(e.log) : e.log[j].op \notin LocalMutators

\* the type of the node a handle of a snapshot stands for
TypeOf(h) == IF h.kind = "local" THEN Lookup(loc, h.path).type ELSE h.st.type

\* C17: the three views of a snapshot are its handles of a directory, of a
\* regular file and of neither, each in the order of the snapshot; so every
\* handle is in exactly one view
C17_ViewsPartitionTheSnapshot ==
  snap.op = "views" =>
    LET IsD(h) == TypeOf(h) = "dir"
        IsF(h) == TypeOf(h) = "file"
        IsU(h) == TypeOf(h) \notin {"dir", "file"}
    IN /\ snap.err = "none"
       /\ snap.out.directories = SelectSeq(snap.a.paths, IsD)
       /\ snap.out.files = SelectSeq(snap.a.paths, IsF)
       /\ snap.out.unknowns = SelectSeq(snap.a.paths, IsU)

\* C12: a stat() through a path handle returns the metadata the backend
\* holds for the node when it is called, whatever was called through the
\* handle and its stream before
C12_StatIsNeverStale ==
  (handle.state = "bound" /\ handle.op = "stat" /\ handle.err = "none")
    => handle.ret = rem[handle.h.path]

\* C16: a stream whose FileHandler scope has been left is closed, and once
\* the session scope has been left, by whichever path, neither the SSH
\* client nor the SFTP channel is open
C16_EveryExitPathCloses ==
  session.state \in {"body", "left"} =>
    /\ \A i \in 1..Len(session.files) :
         (\A j \in 1..Len(session.scopes) : session.scopes[j] # i)
           => session.files[i] = "closed"
    /\ session.state = "left" => (session.ssh # "open" /\ session.sftp # "open")

\* ---- C19
\* the bytes of one character in an encoding, as the encodings define them:
\* "A" is 41 in both, e acute is E9 in Latin-1 and C3 A9 in UTF-8, the euro
\* sign is E2 82 AC in UTF-8 and has no place in Latin-1
CodeOf(cp, encoding) ==
  IF encoding = "latin-1" THEN <<cp>>
  ELSE CASE cp = 65 -> <<65>>
         [] cp = 233 -> <<195, 169>>
         [] cp = 8364 -> <<226, 130, 172>>
         [] OTHER -> << >>

Encodable(text, encoding) ==
  \A i \in 1..Len(text) :
    IF encoding = "latin-1" THEN text[i] < 256 ELSE text[i] \in Chars

RECURSIVE EncodingOf(_, _)
EncodingOf(text, encoding) ==
  IF text = << >> THEN << >>
  ELSE CodeOf(Head(text), encoding) \o EncodingOf(Tail(text), encoding)

\* the bytes of the file that the last read() was handed
Handed ==
  SubSeq(stream.last.before, stream.last.pos + 1,
         IF stream.last.arg = 0
            \/ stream.last.pos + stream.last.arg > Len(stream.last.before)
         THEN Len(stream.last.before)
         ELSE stream.last.pos + stream.last.arg)

WholeFileRead ==
  /\ stream.last.op = "read"
  /\ stream.last.pos = 0
  /\ stream.last.arg = 0

\* C19: strings written to an emptied file through text streams in UTF-8 are
\* read back through a binary stream as exactly their UTF-8 encoding (and
\* through a UTF-8 text stream as themselves); a binary stream returns the
\* bytes of the file and writes the bytes it is given unchanged; a text
\* stream with an encoding configured writes the encoding of the string, or
\* raises UnicodeEncodeError and writes nothing, and returns a string whose
\* encoding is the bytes it read, or raises UnicodeDecodeError.
C19_StreamAdapterEncodesAndDecodes ==
  /\ (WholeFileRead /\ stream.f.mode = "rb" /\ stream.said.valid)
       => /\ stream.last.err = "none"
          /\ stream.last.ret = EncodingOf(stream.said.text, "utf-8")
  /\ (WholeFileRead /\ stream.f.mode = "r" /\ stream.f.encoding = "utf-8"
         /\ stream.said.valid)
       => /\ stream.last.err = "none"
          /\ stream.last.ret = stream.said.text
  /\ (stream.last.op = "read" /\ stream.f.mode = "rb")
       => /\ stream.last.err = "none"
          /\ stream.last.ret = Handed
  /\ (stream.last.op = "write" /\ stream.f.mode = "wb")
       => /\ stream.last.err = "none"
          /\ rem[StreamPath].data = stream.last.before \o stream.last.arg
  /\ (stream.last.op = "write" /\ stream.f.mode = "w" /\ stream.f.encoding # "none")
       => IF Encodable(stream.last.arg, stream.f.encoding)
          THEN /\ stream.last.err = "none"
               /\ rem[StreamPath].data =
                    stream.last.before \o EncodingOf(stream.last.arg, stream.f.encoding)
          ELSE /\ stream.last.err = "UnicodeEncodeError"
               /\ rem[StreamPath].data = stream.last.before
  /\ (stream.last.op = "read" /\ stream.f.mode = "r" /\ stream.f.encoding # "none")
       => IF stream.last.err = "none"
          THEN /\ Encodable(stream.last.ret, stream.f.encoding)
               /\ EncodingOf(stream.last.ret, stream.f.encoding) = Handed
          ELSE /\ stream.last.err = "UnicodeDecodeError"
               /\ stream.f.encoding = "utf-8"

\* C19: a string with a character outside ASCII was written in UTF-8 text
\* mode and the whole file has been read back through a binary stream
C19_NonAsciiRoundTrip ==
  /\ WholeFileRead
  /\ stream.f.mode = "rb"
  /\ stream.said.valid
  /\ \E i \in 1..Len(stream.said.text) : stream.said.text[i] > 127
  /\ Len(stream.last.ret) > Len(stream.said.text)

====
